---- MODULE Spec2Model ----
(***************************************************************************)
(* A model of lighthouse-viewer/app/treemap/treemap.js: the treemap popup  *)
(* of the Lighthouse viewer.  The page's state is the module-level viewer  *)
(* handle of main(), the viewer's fields, the tree nodes it holds (a heap  *)
(* of objects, so that sharing between rootNodes and the displayed clone   *)
(* is observable), the bundle selector, the mount element, and the         *)
(* messages posted to the opener.  Every DOM event handler is one action.  *)
(*                                                                         *)
(* Strings are sequences of character codes: idHash sums them and the      *)
(* label of a node is built by concatenation, as the code does.            *)
(* Numbers are integers; the two places where the code divides are         *)
(* computed exactly (see Percent and LightnessTimesSize).                  *)
(*                                                                         *)
(* webtreemap is an external library.  Its two entry points are modelled   *)
(* by what they do to the tree: sort() orders children by size,            *)
(* descending; TreeMap.render() gives the root a dom element and gives a   *)
(* child one when its parent's box is large enough to lay children out     *)
(* (WebtreemapRender), dropping the others.  It does not reorder children. *)
(* The mouseover and mouseout handlers only toggle a CSS class on the      *)
(* hovered element and are left out.                                       *)
(***************************************************************************)
EXTENDS Integers, Sequences, FiniteSets, TLC

VARIABLES
  openerData,      \* the RootNode values the opening window can send
  loaded,          \* main() has run
  opener,          \* self.opener: "none" (null), "live" or "closed"
  ga,              \* window.ga is defined
  viewport,        \* size class of the window, read by the layout
  posted,          \* messages posted to the opener, in order
  treemapViewer,   \* main's treemapViewer (id 0: undefined)
  windowViewer,    \* window.__treemapViewer (0: undefined)
  heap,            \* the tree nodes: heap[a] is the node at address a
  options,         \* the <option>s of .bundle-selector, in order
  selectorValue,   \* .bundle-selector's value
  changeListeners, \* 'change' listeners registered on .bundle-selector
  elNodes,         \* .webtreemap-node elements inside <main>
  gaEvents,        \* events sent to window.ga
  constructed,     \* history: the rootNodes' nodes as the constructor left them
  lastShown,       \* history: the id of the last show() that completed
  messageRenders,  \* history: message handlers whose show(id) completed
  lastEvent        \* history: the event handled last and how it ended

vars == <<openerData, loaded, opener, ga, viewport, posted, treemapViewer,
          windowViewer, heap, options, selectorValue, changeListeners,
          elNodes, gaEvents, constructed, lastShown, messageRenders,
          lastEvent>>

\* What a handler reads and writes; lastEvent only records the event.
progVars == <<openerData, loaded, opener, ga, viewport, posted, treemapViewer,
              windowViewer, heap, options, selectorValue, changeListeners,
              elNodes, gaEvents, constructed, lastShown, messageRenders>>

----------------------------------------------------------------------------
\* Bounds of the model.

\* Data messages the page handles in one run.
MaxMessages == 2

\* Largest node size of the colour specification's inputs.
MaxSize == 20

----------------------------------------------------------------------------
\* Strings, as sequences of character codes.

\* 'javascript'
JAVASCRIPT == <<106, 97, 118, 97, 115, 99, 114, 105, 112, 116>>

\* ' (all javascript)'
AllJavascriptSuffix == <<32, 40, 97, 108, 108, 32>> \o JAVASCRIPT \o <<41>>

\* ' • ' (U+2022 between two spaces)
Bullet == <<32, 8226, 32>>

StrNaN == <<78, 97, 78>>
StrInfinity == <<73, 110, 102, 105, 110, 105, 116, 121>>

\* The empty string, which is falsy.
EmptyString == <<>>

RECURSIVE Digits(_)
\* String(n) for an integer n >= 0
Digits(n) == IF n < 10 THEN <<48 + n>> ELSE Digits(n \div 10) \o <<48 + (n % 10)>>

RECURSIVE SumSeq(_)
SumSeq(s) == IF s = <<>> THEN 0 ELSE Head(s) + SumSeq(Tail(s))

\* Math.round of the rational num/den (den > 0, num >= 0): halves round up.
MathRound(num, den) == (2 * num + den) \div (2 * den)

----------------------------------------------------------------------------
\* Numbers that are not integers: the results of a division by a zero size.

Number(v) == [kind |-> "number", value |-> v]
NaN == [kind |-> "NaN", value |-> 0]
NegInfinity == [kind |-> "-Infinity", value |-> 0]

\* node.idHash of a node that has no idHash property (undefined).
NoIdHash == -1

\* A node without a dom property, and the style of an element not styled yet.
NoStyle == [h |-> 0, s |-> 0, l |-> NaN]
NoDom == [present |-> FALSE, backgroundColor |-> NoStyle, color |-> ""]
NewDom == [present |-> TRUE, backgroundColor |-> NoStyle, color |-> ""]

\* A tree node as the opener sends it: no originalId, no idHash, no dom.
\* children holds addresses (in a payload: positions within the root's nodes).
DataNode(id, size, wastedBytes, children) ==
  [id |-> id, originalId |-> EmptyString, idHash |-> NoIdHash, size |-> size,
   wastedBytes |-> wastedBytes, children |-> children, dom |-> NoDom]

----------------------------------------------------------------------------
\* The data of the opener: RootNode values {id, group, node}, the node given
\* by its tree in pre-order (nodes[1] is rootNode.node).

StrA == <<97>>
StrB == <<98>>
StrD == <<100>>
StrX == <<120>>
StrY == <<121>>
StrZ == <<122>>
StrCss == <<99, 115, 115>>
DocumentUrl == <<117>>

RootPool ==
  << [id |-> StrA, group |-> JAVASCRIPT,
      nodes |-> << DataNode(StrA, 100, 40, <<2, 3>>),
                   DataNode(StrX, 30, 10, <<>>),
                   DataNode(StrY, 70, 30, <<>>) >>],
     [id |-> StrB, group |-> JAVASCRIPT,
      nodes |-> << DataNode(StrB, 200, 50, <<>>) >>],
     [id |-> StrD, group |-> StrCss,
      nodes |-> << DataNode(StrD, 19, 11, <<>>) >>] >>

\* A root of one node, for every size and every waste within it, beside the
\* second root of RootPool.
ColorPools ==
  { << [id |-> StrA, group |-> JAVASCRIPT,
        nodes |-> << DataNode(StrA, p[1], p[2], <<>>) >>],
       RootPool[2] >> :
      p \in {q \in (0..MaxSize) \X (0..MaxSize) : q[2] <= q[1]} }

\* The rootNodes arrays the opener sends, each root named by its position
\* in the opener's data.
PayloadShapes == {<<>>, <<1, 2>>, <<3, 1>>}

Payloads(pool) ==
  {q \in PayloadShapes : \A i \in DOMAIN q : q[i] \in DOMAIN pool}

\* The RootNode values of a payload.
Roots(pool, payload) == [i \in DOMAIN payload |-> pool[payload[i]]]

\* The selection ids a message carries: '' is falsy, 'z' names no root.
MessageIds(pool) ==
  {EmptyString, JAVASCRIPT, StrZ} \cup {pool[i].id : i \in DOMAIN pool}

\* e.data: rootNodes is {} when the property is missing, else {the array}.
CompleteData(pool) ==
  [documentUrl : {DocumentUrl},
   id : MessageIds(pool) \ {EmptyString},
   rootNodes : {{p} : p \in Payloads(pool)}]

\* Messages that lack one or more of the three properties.
IncompleteData(pool) ==
  [documentUrl : {EmptyString, DocumentUrl},
   id : {EmptyString, JAVASCRIPT},
   rootNodes : {{}, {<<>>}}] \ CompleteData(pool)

\* The 'message' events: any message from the opener, and a complete one
\* from another window.
MessageEvents(pool) ==
  ({"opener"} \X (CompleteData(pool) \cup IncompleteData(pool)))
    \cup ({"other"} \X {d \in CompleteData(pool) : d.id = JAVASCRIPT})

\* How small a box the layout still fills with children: a node's children
\* are laid out when the node's size is at least the viewport's value.
Viewports == {0, 150}

----------------------------------------------------------------------------
\* Trees in the heap.

RECURSIVE dfs(_, _)
\* The nodes dfs(node, fn) calls fn on, in order: stack holds the nodes still
\* to visit, a node's children before its later siblings.
dfs(h, stack) ==
  IF stack = <<>> THEN <<>>
  ELSE <<Head(stack)>> \o dfs(h, h[Head(stack)].children \o Tail(stack))

Range(s) == {s[i] : i \in DOMAIN s}

\* The sequence f, as a value computed once.
Array(f) == f \o <<>>

\* F(e), with e evaluated once.
With(e, F(_)) == CHOOSE r \in {F(x) : x \in {e}} : TRUE

\* The position of address a in the sequence of addresses s.
IndexOf(s, a) == CHOOSE i \in DOMAIN s : s[i] = a

\* The payload's trees as objects: root k's nodes follow root k-1's.
RECURSIVE Offsets(_)
Offsets(roots) ==
  IF roots = <<>> THEN <<>>
  ELSE LET before == Offsets(SubSeq(roots, 1, Len(roots) - 1))
           last == Len(roots) - 1
       IN  IF last = 0 THEN <<0>>
           ELSE before \o <<before[last] + Len(roots[last].nodes)>>

RECURSIVE Flatten(_)
Flatten(ss) == IF ss = <<>> THEN <<>> ELSE Head(ss) \o Flatten(Tail(ss))

Relocate(node, base) ==
  [node EXCEPT !.children = [i \in DOMAIN node.children |-> node.children[i] + base]]

\* The objects a message's structured clone creates: a fresh heap of the
\* payload's nodes and the rootNodes array referring to them.
ReceiveRoots(roots) ==
  LET off == Offsets(roots)
  IN  [heap |-> Flatten([k \in DOMAIN roots |->
                   [i \in DOMAIN roots[k].nodes |-> Relocate(roots[k].nodes[i], off[k])]]),
       rootNodes |-> [k \in DOMAIN roots |->
                   [id |-> roots[k].id, group |-> roots[k].group, node |-> off[k] + 1]]]

----------------------------------------------------------------------------
\* webtreemap.sort: children by size, largest first, equal sizes in their
\* given order (Array.prototype.sort is stable), in every node of the tree.

RECURSIVE SortBySize(_, _)
SortBySize(h, s) ==
  IF s = <<>> THEN <<>>
  ELSE LET sorted == SortBySize(h, SubSeq(s, 1, Len(s) - 1))
           a == s[Len(s)]
           k == Cardinality({i \in DOMAIN sorted : h[sorted[i]].size >= h[a].size})
       IN  SubSeq(sorted, 1, k) \o <<a>> \o SubSeq(sorted, k + 1, Len(sorted))

WebtreemapSort(h, a) ==
  LET tree == Range(dfs(h, <<a>>))
  IN  Array([i \in DOMAIN h |->
         IF i \in tree THEN [h[i] EXCEPT !.children = SortBySize(h, @)] ELSE h[i]])

\* TreeMap.render: the root gets a dom element; the children of a laid-out
\* node get one when the node is large enough for the viewport, and every
\* other node of the tree loses its element.  Existing elements are kept.
RECURSIVE LaidOut(_, _, _)
LaidOut(h, stack, vp) ==
  IF stack = <<>> THEN {}
  ELSE LET a == Head(stack)
       IN  {a} \cup LaidOut(h, (IF h[a].size >= vp THEN h[a].children ELSE <<>>)
                                  \o Tail(stack), vp)

WebtreemapRender(h, root, vp) ==
  LET laid == LaidOut(h, <<root>>, vp)
      tree == Range(dfs(h, <<root>>))
  IN  Array([i \in DOMAIN h |->
         IF i \in laid
         THEN IF h[i].dom.present THEN h[i] ELSE [h[i] EXCEPT !.dom = NewDom]
         ELSE IF i \in tree THEN [h[i] EXCEPT !.dom = NoDom]
         ELSE h[i]])

----------------------------------------------------------------------------
\* setTitle (MODE is 'wastedBytes').

\* String(Math.round(wastedBytes / size * 100))
Percent(node) ==
  IF node.size = 0
  THEN IF node.wastedBytes = 0 THEN StrNaN ELSE StrInfinity
  ELSE Digits(MathRound(100 * node.wastedBytes, node.size))

Label(node) ==
  node.originalId \o Bullet \o Digits(node.size) \o Bullet \o Percent(node)

setTitle(h, a) ==
  LET tree == Range(dfs(h, <<a>>))
  IN  Array([i \in DOMAIN h |->
         IF i \in tree THEN [h[i] EXCEPT !.id = Label(h[i])] ELSE h[i]])

----------------------------------------------------------------------------
\* TreemapViewer.

NoViewer ==
  [id |-> 0, documentUrl |-> EmptyString, rootNodes |-> <<>>,
   currentRootNode |-> 0, treemap |-> 0]

\* [...rootNode.id].reduce((acc, char) => acc + char.charCodeAt(0), 0)
IdHash(id) == SumSeq(id)

\* One turn of the constructor's loop.
AnnotateRoot(h, rootNode) ==
  With(Range(dfs(h, <<rootNode.node>>)), LAMBDA tree :
    With(Array([i \in DOMAIN h |->
           IF i \in tree THEN [h[i] EXCEPT !.originalId = h[i].id] ELSE h[i]]),
         LAMBDA h1 :
    With(Array([i \in DOMAIN h1 |->
           IF i \in tree THEN [h1[i] EXCEPT !.idHash = IdHash(rootNode.id)] ELSE h1[i]]),
         LAMBDA h2 : WebtreemapSort(h2, rootNode.node))))

RECURSIVE AnnotateRoots(_, _)
AnnotateRoots(h, rootNodes) ==
  IF rootNodes = <<>> THEN h
  ELSE With(AnnotateRoot(h, Head(rootNodes)), LAMBDA h1 :
         AnnotateRoots(h1, Tail(rootNodes)))

\* new TreemapViewer(documentUrl, rootNodes, el): the viewer and the heap,
\* which now holds the message's nodes only.
Constructor(n, documentUrl, roots) ==
  With(ReceiveRoots(roots), LAMBDA r :
    [heap |-> AnnotateRoots(r.heap, r.rootNodes),
     viewer |-> [id |-> n, documentUrl |-> documentUrl, rootNodes |-> r.rootNodes,
                 currentRootNode |-> 0, treemap |-> 0]])

\* The nodes that belong to the viewer's rootNodes.
RootAddresses(v, h) ==
  UNION {Range(dfs(h, <<v.rootNodes[k].node>>)) : k \in DOMAIN v.rootNodes}

\* rootNodes.filter(rootNode => rootNode.group === id).map(rootNode => rootNode.node)
GroupNodesAlsoOthers(rootNodes, id) ==
  [k \in DOMAIN rootNodes |-> rootNodes[k].node]

GroupNodes(rootNodes, id) ==
  LET keep == SelectSeq(rootNodes, LAMBDA r : r.group = id)
  IN  [k \in DOMAIN keep |-> keep[k].node]

\* The object literal of show(): no id and no idHash property.
Aggregate(v, h, children) ==
  [id |-> EmptyString, originalId |-> v.documentUrl, idHash |-> NoIdHash,
   size |-> SumSeq([k \in DOMAIN children |-> h[children[k]].size]),
   wastedBytes |-> SumSeq([k \in DOMAIN children |-> h[children[k]].wastedBytes]),
   children |-> children, dom |-> NoDom]

\* JSON.parse(JSON.stringify(node)) with n nodes kept below it: the copies
\* take the addresses after n, in the order JSON.stringify writes them.
JsonCloneNone(h, a, n) == [heap |-> h, root |-> a]

JsonClone(h, a, n) ==
  With(dfs(h, <<a>>), LAMBDA order :
    [heap |-> SubSeq(h, 1, n)
                \o [k \in DOMAIN order |->
                      [h[order[k]] EXCEPT
                         !.children = [i \in DOMAIN @ |-> n + IndexOf(order, @[i])]]],
     root |-> n + 1])

----------------------------------------------------------------------------
\* updateColors.

Colors ==
  << [h |-> 30, s |-> 60], [h |-> 94, s |-> 60],
     [h |-> 124, s |-> 60], [h |-> 254, s |-> 60] >>

\* node.idHash % colors.length || 0, as a position in Colors (from 1):
\* undefined % 4 is NaN, and NaN || 0 is 0; 0 || 0 is 0.
PaletteIndexOffByOne(idHash) ==
  IF idHash = NoIdHash THEN 1 ELSE ((idHash + 1) % Len(Colors)) + 1

PaletteIndex(idHash) ==
  LET i == IF idHash = NoIdHash THEN NaN ELSE Number(idHash % Len(Colors))
  IN  IF i.kind = "NaN" \/ i.value = 0 THEN 1 ELSE i.value + 1

\* l = 25 + (85 - 25) * (1 - wastedBytes / size), times size (size > 0).
LightnessTimesSize(node) == 25 * node.size + (85 - 25) * (node.size - node.wastedBytes)

\* Math.round(l): 1 - 0/0 is NaN and 1 - w/0 is -Infinity.
RoundedLightness(node) ==
  IF node.size = 0
  THEN IF node.wastedBytes = 0 THEN NaN ELSE NegInfinity
  ELSE Number(MathRound(LightnessTimesSize(node), node.size))

\* l > 50 ? 'black' : 'white', on the lightness before rounding.
TextColorOfRounded(node) ==
  IF RoundedLightness(node).kind = "number" /\ RoundedLightness(node).value > 50
  THEN "black" ELSE "white"

TextColor(node) ==
  IF node.size # 0 /\ LightnessTimesSize(node) > 50 * node.size
  THEN "black" ELSE "white"

\* hsl(color.h, color.s, Math.round(l)): the three numbers of the string.
hsl(h, s, l) == [h |-> h, s |-> s, l |-> l]

Styled(node) ==
  LET color == Colors[PaletteIndex(node.idHash)]
  IN  [node EXCEPT !.dom = [present |-> TRUE,
                            backgroundColor |-> hsl(color.h, color.s, RoundedLightness(node)),
                            color |-> TextColor(node)]]

\* updateColors on a viewer whose currentRootNode is the node at a.
updateColors(h, a) ==
  LET tree == Range(dfs(h, <<a>>))
  IN  Array([i \in DOMAIN h |->
         IF i \in tree /\ h[i].dom.present THEN Styled(h[i]) ELSE h[i]])

\* render(): threw when this.treemap is undefined.
Render(v, h, vp, el) ==
  IF v.treemap = 0
  THEN [threw |-> TRUE, viewer |-> v, heap |-> h, elNodes |-> el]
  ELSE With(WebtreemapRender(h, v.treemap, vp), LAMBDA h1 :
         [threw |-> FALSE, viewer |-> v,
          heap |-> updateColors(h1, v.currentRootNode),
          elNodes |-> Cardinality({i \in Range(dfs(h1, <<v.treemap>>)) : h1[i].dom.present})])

Min(S) == CHOOSE x \in S : \A y \in S : x <= y

\* show(id): threw when no root has the id (find returns undefined and
\* reading .node of it throws, before anything is assigned).
Show(v, h, id, vp, el) ==
  LET n == Cardinality(RootAddresses(v, h))
      found == {k \in DOMAIN v.rootNodes : v.rootNodes[k].id = id}
  IN  IF id # JAVASCRIPT /\ found = {}
      THEN [threw |-> TRUE, viewer |-> v, heap |-> h, elNodes |-> el]
      ELSE With(IF id = JAVASCRIPT
                THEN SubSeq(h, 1, n) \o <<Aggregate(v, h, GroupNodes(v.rootNodes, id))>>
                ELSE SubSeq(h, 1, n), LAMBDA h1 :
               With(JsonClone(h1, IF id = JAVASCRIPT THEN n + 1
                                  ELSE v.rootNodes[Min(found)].node, n), LAMBDA c :
                 With(setTitle(c.heap, c.root), LAMBDA h2 :
                   Render([v EXCEPT !.currentRootNode = c.root, !.treemap = c.root],
                          h2, vp, 0))))

----------------------------------------------------------------------------
\* The page.

Event(type, fromOpener, complete, threw) ==
  [type |-> type, fromOpener |-> fromOpener, complete |-> complete, threw |-> threw]

\* What lastEvent keeps of an event other than 'message': its type when the
\* handler threw, and "ui" when it returned.
UiEvent(type, threw) == Event(IF threw THEN type ELSE "ui", FALSE, FALSE, threw)

\* self.opener && !self.opener.closed
OpenerIsLive(o) == o = "live"

\* The message handler posts {rendered: true} after show(id) has returned,
\* to a live opener.
AcknowledgesUnrendered(o, threw) == OpenerIsLive(o)

Acknowledges(o, threw) == ~threw /\ OpenerIsLive(o)

\* e.source === self.opener, for a message sent by a window: the opener
\* ("opener") or another one ("other").
FromOpener(o, source) == o # "none" /\ source = "opener"

\* !(!rootNodes || !documentUrl || !id): an array is truthy even when empty,
\* a string is truthy unless empty.
Complete(data) ==
  data.rootNodes # {} /\ data.documentUrl # EmptyString /\ data.id # EmptyString

\* The two early returns of the message handler.
HandlesAnySource(o, source, data) == Complete(data)

Handles(o, source, data) == FromOpener(o, source) /\ Complete(data)

\* makeOption('javascript', ...) and one makeOption per root.
NewOptions(documentUrl, roots) ==
  <<[value |-> JAVASCRIPT, text |-> documentUrl \o AllJavascriptSuffix]>>
    \o [k \in DOMAIN roots |-> [value |-> roots[k].id, text |-> roots[k].id]]

\* select.value after an assignment: the value when an option has it, else ''.
SelectValue(opts, value) ==
  IF \E k \in DOMAIN opts : opts[k].value = value THEN value ELSE EmptyString

Init ==
  /\ openerData = RootPool
  /\ loaded = FALSE
  /\ opener \in {"none", "live"}
  /\ ga \in BOOLEAN
  /\ viewport \in Viewports
  /\ posted = <<>>
  /\ treemapViewer = NoViewer
  /\ windowViewer = 0
  /\ heap = <<>>
  /\ options = <<>>
  /\ selectorValue = EmptyString
  /\ changeListeners = 0
  /\ elNodes = 0
  /\ gaEvents = 0
  /\ constructed = <<>>
  /\ lastShown = EmptyString
  /\ messageRenders = 0
  /\ lastEvent = Event("none", FALSE, FALSE, FALSE)

\* main(): registers the listeners and tells a live opener the page is ready.
Main ==
  /\ ~loaded
  /\ loaded' = TRUE
  /\ posted' = IF OpenerIsLive(opener) THEN Append(posted, "opened") ELSE posted
  /\ lastEvent' = UiEvent("load", FALSE)
  /\ UNCHANGED <<openerData, opener, ga, viewport, treemapViewer, windowViewer,
                 heap, options, selectorValue, changeListeners, elNodes,
                 gaEvents, constructed, lastShown, messageRenders>>

\* The opening window is closed.
CloseOpener ==
  /\ opener = "live"
  /\ opener' = "closed"
  /\ lastEvent' = UiEvent("close", FALSE)
  /\ UNCHANGED <<openerData, loaded, ga, viewport, posted, treemapViewer,
                 windowViewer, heap, options, selectorValue, changeListeners,
                 elNodes, gaEvents, constructed, lastShown, messageRenders>>

\* A 'message' event the handler returns from at once.
MessageIgnored(source, data) ==
  /\ loaded
  /\ source = "opener" => opener # "none"
  /\ ~Handles(opener, source, data)
  /\ lastEvent' = Event("message", FromOpener(opener, source), Complete(data), FALSE)
  /\ UNCHANGED progVars

\* A 'message' event the handler works on, up to max data messages.
MessageHandled(source, data, max) ==
  /\ loaded
  /\ source = "opener" => opener # "none"
  /\ Handles(opener, source, data)
  /\ treemapViewer.id < max
  /\ \E payload \in data.rootNodes :
     \E roots \in {Roots(openerData, payload)} :
     \E c \in {Constructor(treemapViewer.id + 1, data.documentUrl, roots)} :
     \E sh \in {Show(c.viewer, c.heap, data.id, viewport, elNodes)} :
         /\ options' = options \o NewOptions(data.documentUrl, roots)
         /\ selectorValue' = SelectValue(options', data.id)
         /\ changeListeners' = changeListeners + 1
         /\ treemapViewer' = sh.viewer
         /\ heap' = sh.heap
         /\ elNodes' = sh.elNodes
         /\ constructed' = c.heap
         /\ posted' = IF Acknowledges(opener, sh.threw)
                      THEN Append(posted, "rendered") ELSE posted
         /\ IF sh.threw
            THEN /\ lastShown' = EmptyString
                 /\ UNCHANGED <<windowViewer, gaEvents, messageRenders>>
            ELSE /\ lastShown' = data.id
                 /\ windowViewer' = sh.viewer.id
                 /\ gaEvents' = IF ga THEN gaEvents + 1 ELSE gaEvents
                 /\ messageRenders' = messageRenders + 1
         /\ lastEvent' = Event("message", FromOpener(opener, source), Complete(data), sh.threw)
  /\ UNCHANGED <<openerData, loaded, opener, ga, viewport>>

Message ==
  \E e \in MessageEvents(openerData) :
    \/ MessageIgnored(e[1], e[2])
    \/ MessageHandled(e[1], e[2], MaxMessages)

\* The listeners of 'change' run one after the other; each calls
\* treemapViewer.show(bundleSelectorEl.value), and one that throws does not
\* stop the next.
RECURSIVE ShowTimes(_, _, _, _, _, _)
ShowTimes(times, v, h, id, vp, el) ==
  IF times = 0 THEN [threw |-> FALSE, viewer |-> v, heap |-> h, elNodes |-> el]
  ELSE With(Show(v, h, id, vp, el), LAMBDA first :
         With(ShowTimes(times - 1, first.viewer, first.heap, id, vp, first.elNodes),
              LAMBDA rest : [rest EXCEPT !.threw = first.threw \/ rest.threw]))

\* The user picks an option of the selector.
Change ==
  \E value \in {options[k].value : k \in DOMAIN options} :
    \E sh \in {ShowTimes(changeListeners, treemapViewer, heap, value, viewport, elNodes)} :
        /\ loaded
        /\ selectorValue' = value
        /\ treemapViewer' = sh.viewer
        /\ heap' = sh.heap
        /\ elNodes' = sh.elNodes
        /\ lastShown' = IF sh.threw THEN lastShown ELSE value
        /\ lastEvent' = UiEvent("change", sh.threw)
        /\ UNCHANGED <<openerData, loaded, opener, ga, viewport, posted,
                       windowViewer, options, changeListeners, gaEvents,
                       constructed, messageRenders>>

\* The window is resized: treemapViewer && treemapViewer.render().
Resize ==
  \E vp \in Viewports :
    \E r \in {IF treemapViewer.id = 0
               THEN [threw |-> FALSE, viewer |-> treemapViewer, heap |-> heap,
                     elNodes |-> elNodes]
               ELSE Render(treemapViewer, heap, vp, elNodes)} :
        /\ loaded
        /\ viewport' = vp
        /\ heap' = r.heap
        /\ elNodes' = r.elNodes
        /\ lastEvent' = UiEvent("resize", r.threw)
        /\ UNCHANGED <<openerData, loaded, opener, ga, posted, treemapViewer,
                       windowViewer, options, selectorValue, changeListeners,
                       gaEvents, constructed, lastShown, messageRenders>>

\* A click inside a .webtreemap-node element:
\* treemapViewer && treemapViewer.updateColors().  dfs(null, fn) throws.
ClickNode ==
  /\ loaded
  /\ elNodes > 0
  /\ LET threw == treemapViewer.id # 0 /\ treemapViewer.currentRootNode = 0
     IN  /\ heap' = IF treemapViewer.id = 0 \/ threw THEN heap
                    ELSE updateColors(heap, treemapViewer.currentRootNode)
         /\ lastEvent' = UiEvent("click", threw)
  /\ UNCHANGED <<openerData, loaded, opener, ga, viewport, posted, treemapViewer,
                 windowViewer, options, selectorValue, changeListeners, elNodes,
                 gaEvents, constructed, lastShown, messageRenders>>

\* A click anywhere else: closest('.webtreemap-node') is null.
ClickElsewhere ==
  /\ loaded
  /\ lastEvent' = UiEvent("click", FALSE)
  /\ UNCHANGED progVars

Next ==
  \/ Main
  \/ CloseOpener
  \/ Message
  \/ Change
  \/ Resize
  \/ ClickNode
  \/ ClickElsewhere

Spec == Init /\ [][Next]_vars

----------------------------------------------------------------------------
\* The colours of a node, for every size and waste: the page with a live
\* opener that sends one data message.

InitColors ==
  /\ openerData \in ColorPools
  /\ loaded = FALSE
  /\ opener = "live"
  /\ ga = FALSE
  /\ viewport = 0
  /\ posted = <<>>
  /\ treemapViewer = NoViewer
  /\ windowViewer = 0
  /\ heap = <<>>
  /\ options = <<>>
  /\ selectorValue = EmptyString
  /\ changeListeners = 0
  /\ elNodes = 0
  /\ gaEvents = 0
  /\ constructed = <<>>
  /\ lastShown = EmptyString
  /\ messageRenders = 0
  /\ lastEvent = Event("none", FALSE, FALSE, FALSE)

FirstMessage ==
  \E e \in MessageEvents(openerData) : MessageHandled(e[1], e[2], 1)

NextColors ==
  \/ Main
  \/ FirstMessage
  \/ Change
  \/ Resize
  \/ ClickNode

SpecColors == InitColors /\ [][NextColors]_vars

----------------------------------------------------------------------------
\* What the claims speak of.

ViewerSet == treemapViewer.id # 0

Current == treemapViewer.currentRootNode

Tree(a) == Range(dfs(heap, <<a>>))

\* The nodes of the displayed tree that updateColors colours.
Coloured == IF Current = 0 THEN {} ELSE {i \in Tree(Current) : heap[i].dom.present}

\* The roots of the live viewer in the 'javascript' group, in rootNodes order.
JavascriptRoots == SelectSeq(treemapViewer.rootNodes, LAMBDA r : r.group = JAVASCRIPT)

AggregateShown == Current # 0 /\ lastShown = JAVASCRIPT

\* The ids of the roots whose tree the displayed node i was copied from.
OwnerIds(i) ==
  IF lastShown = JAVASCRIPT
  THEN {JavascriptRoots[k].id :
          k \in {j \in DOMAIN heap[Current].children : i \in Tree(heap[Current].children[j])}}
  ELSE {treemapViewer.rootNodes[k].id :
          k \in {j \in DOMAIN treemapViewer.rootNodes :
                   /\ treemapViewer.rootNodes[j].id = lastShown
                   /\ \A m \in 1..(j - 1) : treemapViewer.rootNodes[m].id # lastShown}}

RECURSIVE IsCopy(_, _)
\* The tree at a is a copy of the tree at b: other objects, the same data.
IsCopy(a, b) ==
  /\ a # b
  /\ heap[a].originalId = heap[b].originalId
  /\ heap[a].idHash = heap[b].idHash
  /\ heap[a].size = heap[b].size
  /\ heap[a].wastedBytes = heap[b].wastedBytes
  /\ Len(heap[a].children) = Len(heap[b].children)
  /\ \A k \in DOMAIN heap[a].children : IsCopy(heap[a].children[k], heap[b].children[k])

Occurrences(seq, x) == Cardinality({k \in DOMAIN seq : seq[k] = x})

IgnoredMessage(e) == e.type = "message" /\ ~(e.fromOpener /\ e.complete)

C2_RenderedAfterOpenedAndShow ==
  /\ Occurrences(posted, "rendered") <= messageRenders
  /\ messageRenders <= treemapViewer.id
  /\ Occurrences(posted, "rendered") > 0 => posted[1] = "opened"
  /\ \A k \in DOMAIN posted : k > 1 => posted[k] = "rendered"

\* The second data message named no root: one acknowledgement, two messages.
C2_Witness ==
  /\ treemapViewer.id = 2 /\ lastEvent.type = "message" /\ lastEvent.threw
  /\ posted = <<"opened", "rendered">>

\* C3: once the constructor has run, show, render and updateColors leave
\* every node of rootNodes as the constructor left it, and the displayed
\* tree shares no node with rootNodes.
C3_RootNodesUntouched ==
  ViewerSet =>
    /\ Len(heap) >= Len(constructed)
    /\ SubSeq(heap, 1, Len(constructed)) = constructed
    /\ RootAddresses(treemapViewer, heap) = 1..Len(constructed)
    /\ Current # 0 => Tree(Current) \cap RootAddresses(treemapViewer, heap) = {}

\* The aggregate of two roots is displayed, relabelled and coloured.
C3_Witness ==
  /\ AggregateShown /\ Len(heap[Current].children) = 2
  /\ \A i \in Tree(Current) : heap[i].dom.present /\ heap[i].id # heap[i].originalId

\* C4: after show('javascript') the displayed node's size and wastedBytes
\* are the sums over the roots of the 'javascript' group, its children are
\* copies of those roots' nodes in rootNodes order, and with no such root it
\* has size 0, wastedBytes 0 and no children.
C4_AggregateSums ==
  AggregateShown =>
    /\ heap[Current].size =
         SumSeq([k \in DOMAIN JavascriptRoots |-> heap[JavascriptRoots[k].node].size])
    /\ heap[Current].wastedBytes =
         SumSeq([k \in DOMAIN JavascriptRoots |-> heap[JavascriptRoots[k].node].wastedBytes])
    /\ Len(heap[Current].children) = Len(JavascriptRoots)
    /\ \A k \in DOMAIN JavascriptRoots :
         IsCopy(heap[Current].children[k], JavascriptRoots[k].node)
    /\ JavascriptRoots = <<>> =>
         /\ heap[Current].size = 0
         /\ heap[Current].wastedBytes = 0
         /\ heap[Current].children = <<>>

\* Roots of sizes 100/40 and 200/50: an aggregate of size 300, waste 90.
C4_Witness ==
  /\ AggregateShown
  /\ heap[Current].size = 300 /\ heap[Current].wastedBytes = 90
  /\ Len(heap[Current].children) = 2
  /\ Len(treemapViewer.rootNodes) = 2

\* C5: every id a selector change passes to show() is 'javascript' or the
\* id of a root of the live viewer, so the lookup of show() finds a root.
C5_ChangeShowsKnownRoot ==
  lastEvent.type = "change" =>
    /\ ~lastEvent.threw
    /\ \/ selectorValue = JAVASCRIPT
       \/ \E k \in DOMAIN treemapViewer.rootNodes :
            treemapViewer.rootNodes[k].id = selectorValue

\* C6: once a data message has been handled, the selector holds one option
\* per root of the live viewer and one 'javascript' option, and no other.
C6_SelectorMatchesRoots ==
  ViewerSet =>
    LET values == [k \in DOMAIN options |-> options[k].value]
        wanted == <<JAVASCRIPT>>
                    \o [k \in DOMAIN treemapViewer.rootNodes |-> treemapViewer.rootNodes[k].id]
    IN  /\ Len(values) = Len(wanted)
        /\ \A x \in Range(values) \cup Range(wanted) :
             Occurrences(values, x) = Occurrences(wanted, x)

\* C7: once set, the viewer handle never refers to another viewer.
C7_ViewerNeverReplaced ==
  [][ViewerSet => treemapViewer'.id = treemapViewer.id]_vars

\* C8, as claimed: every coloured node carries the idHash of its root's id
\* and is coloured with palette entry idHash mod 4.
C8_EveryColouredNodeHashed ==
  \A i \in Coloured :
    /\ heap[i].idHash # NoIdHash
    /\ \E id \in OwnerIds(i) : heap[i].idHash = SumSeq(id)
    /\ heap[i].dom.backgroundColor.h = Colors[(heap[i].idHash % 4) + 1].h
    /\ heap[i].dom.backgroundColor.s = Colors[(heap[i].idHash % 4) + 1].s

\* C8, amended: that holds of every coloured node but the aggregate's own
\* node, which has no idHash and gets palette entry 0 by the fallback.
C8_ColouredByRootHash ==
  \A i \in Coloured :
    IF AggregateShown /\ i = Current
    THEN /\ heap[i].idHash = NoIdHash
         /\ heap[i].dom.backgroundColor.h = Colors[1].h
         /\ heap[i].dom.backgroundColor.s = Colors[1].s
    ELSE /\ heap[i].idHash # NoIdHash
         /\ \E id \in OwnerIds(i) : heap[i].idHash = SumSeq(id)
         /\ heap[i].dom.backgroundColor.h = Colors[(heap[i].idHash % 4) + 1].h
         /\ heap[i].dom.backgroundColor.s = Colors[(heap[i].idHash % 4) + 1].s

\* The aggregate is coloured with entry 0 and a child of root 'b' (hash 98)
\* with entry 2.
C8_Witness ==
  /\ AggregateShown /\ heap[Current].dom.present
  /\ heap[Current].dom.backgroundColor.h = 30
  /\ \E i \in Coloured : heap[i].idHash = 98 /\ heap[i].dom.backgroundColor.h = 124

InRange(node) ==
  node.size > 0 /\ 0 <= node.wastedBytes /\ node.wastedBytes <= node.size

\* C9, as claimed: the text is black exactly when the lightness written into
\* the background colour is greater than 50.
C9_BlackIffWrittenLightnessAbove50 ==
  \A i \in Coloured :
    InRange(heap[i]) =>
      (heap[i].dom.color = "black" <=> heap[i].dom.backgroundColor.l.value > 50)

\* C9, amended: the text is black exactly when the lightness before rounding
\* is greater than 50 (7 * size > 12 * wastedBytes); the written lightness is
\* that value rounded, so it is at least 50 under black text and at most 50
\* under white text.
C9_BlackIffLightnessAbove50 ==
  \A i \in Coloured :
    InRange(heap[i]) =>
      /\ heap[i].dom.backgroundColor.l.kind = "number"
      /\ heap[i].dom.color \in {"black", "white"}
      /\ heap[i].dom.color = "black" <=> 7 * heap[i].size > 12 * heap[i].wastedBytes
      /\ heap[i].dom.backgroundColor.l.value > 50 => heap[i].dom.color = "black"
      /\ heap[i].dom.backgroundColor.l.value < 50 => heap[i].dom.color = "white"

\* Size 19 with 11 wasted: lightness 50.26, written as 50, under black text.
C9_Witness ==
  \E i \in Coloured :
    /\ heap[i].size = 19 /\ heap[i].wastedBytes = 11
    /\ heap[i].dom.backgroundColor.l = Number(50)
    /\ heap[i].dom.color = "black"

\* C10: whenever the viewer handle is set, the viewer has a currentRootNode
\* and a treemap, and no resize or click handler throws.
C10_ViewerRenderable ==
  /\ ViewerSet => (Current # 0 /\ treemapViewer.treemap # 0)
  /\ lastEvent.type \notin {"resize", "click"}

====
